---------------------------- MODULE Spec2Model ----------------------------
(***************************************************************************)
(* Model of the exercise flow controller, useExerciseFlow                  *)
(* (src/hooks/useSpeech.ts, lines 109-436).                                *)
(*                                                                         *)
(* Time.  One model time unit is 50 ms.  The model never stores a wall     *)
(* clock value: every timestamp the code keeps (the start of a countdown,  *)
(* optionsStartTimeRef, resultStartTimeRef) is represented by its age,     *)
(* Date.now() - timestamp, and the action AdvanceTime ages all of them by  *)
(* one unit.  A JavaScript timer never fires before it is due and may fire *)
(* up to MaxLate units late.                                               *)
(*                                                                         *)
(* React.  phase, remainingMs, selectedIndex and isPaused are React state; *)
(* every controller operation is invoked on the functions of the latest    *)
(* render, so it reads the values the previous operation or timer callback *)
(* committed.  The refs are plain mutable cells.                           *)
(***************************************************************************)
EXTENDS Integers, Sequences, FiniteSets

\* ---------------------------------------------------------------- bounds
\* A timer callback runs at most MaxLate units after it is due.
MaxLate == 1
\* A behaviour makes at most MaxOps calls of controller operations.
MaxOps == 5
\* Ages of optionsStartTimeRef (and so response times) saturate at MaxAge.
MaxAge == 1
\* Live result timeouts that no ref refers to any more (see resume).
MaxLeaked == 1
\* onComplete invocations are counted up to MaxCalls.
MaxCalls == 2
\* A practice / review session has at most MaxItems items.
MaxItems == 2
\* speak() and cancel() of useSpeech are called at most MaxSpeak times.
MaxSpeak == 2
\* At most MaxWrites AsyncStorage.setItem calls of markAsSeen() are
\* outstanding at a time.
MaxWrites == 2
\* refreshSignal.subscribe() is called at most MaxSubs times.
MaxSubs == 2
\* At most MaxPending scheduled timeouts and service calls of a screen are
\* outstanding at a time.
MaxPending == 2

\* ------------------------------------------------------ program constants
\* COUNTDOWN_INTERVAL = 50 ms
COUNTDOWN_INTERVAL == 1
\* The configuration { questionDuration: 50, optionsDuration: 150,
\* resultDuration: 100 } (ms), passed as `config` and merged over
\* DEFAULT_CONFIG.
questionDuration == 1
optionsDuration == 3
resultDuration == 2

\* null of a number-valued ref or state
Null == -9
\* Option indices the caller passes to select / enterResult /
\* updateSelectedIndex; -1 is the timed-out answer.
Indices == {0, 1}

Max(a, b) == IF a >= b THEN a ELSE b
Min(a, b) == IF a <= b THEN a ELSE b

\* ------------------------------------------------------------------ state
VARIABLES
    phase,                    \* "idle" | "question" | "options" | "processing" | "result"
    remainingMs,
    selectedIndex,            \* Null | -1 | option index
    isPaused,
    timerRef,                 \* the countdown interval
    resultTimeoutRef,         \* the result timeout handle
    leaked,                   \* live result timeouts no ref refers to
    optionsStartTimeRef,      \* Null | age of the timestamp
    responseTimeMsRef,        \* Null | ms
    pausedRemainingRef,
    pausedOnEndRef,
    currentOnEndRef,
    resultStartTimeRef,       \* age of the timestamp, saturating at resultDuration
    pausedResultRemainingRef,
    pendingCountdownRef,
    completeCalls,            \* onComplete invocations since the last start()/reset()
    callbackCalls,            \* invocations of the other callbacks since then (see NoCalls)
    ops,                      \* history: the number of operations called so far
    scn,                      \* history: what the caller has been doing (see Scn)
    hist,                     \* history: the last call and its context (see H)
    scr,                      \* the practice / review screen (see ScreenInitState)
    sp,                       \* useSpeech (see SpeechInitState)
    cm,                       \* useCoachMark and AsyncStorage (see CoachInitState)
    dp,                       \* useDisplayPhase (see DisplayInitState)
    rs                        \* refreshSignal (see SignalInitState)

ctl == <<phase, remainingMs, selectedIndex, isPaused, timerRef, resultTimeoutRef,
         leaked, optionsStartTimeRef, responseTimeMsRef, pausedRemainingRef,
         pausedOnEndRef, currentOnEndRef, resultStartTimeRef,
         pausedResultRemainingRef, pendingCountdownRef, completeCalls,
         callbackCalls>>

\* The countdown end callbacks the code creates.  "qEnd" / "qEndDelay" are
\* questionOnEnd of a start() without / with delayOptionsCountdown,
\* "optTimeout" is () => enterResult(-1), "custom" is the onTimeout handler
\* a caller gives to startOptionsCountdown, which routes the timeout into
\* processing (comment at line 308).
Callbacks == {"qEnd", "qEndDelay", "optTimeout", "custom"}
NoCallback == "none"

\* timerRef.current: null, or a live interval with its closure's onEnd and
\* duration, its closure's start as elapsed = Date.now() - start (counted
\* up to duration), left = max(0, duration - elapsed), and the time since it
\* was set or last ticked.
NoTimer ==
    [on |-> FALSE, onEnd |-> NoCallback, duration |-> 0, elapsed |-> 0, left |-> 0,
     sinceTick |-> 0]
\* resultTimeoutRef.current: null, a live timeout due in `left` units, or
\* the stale handle of a timeout that has fired (the code never nulls it).
NoTimeout == [st |-> "null", left |-> 0]
StaleTimeout == [st |-> "stale", left |-> 0]
LiveTimeout(delay) == [st |-> "live", left |-> delay]
NoPending == [set |-> FALSE, duration |-> 0, onEnd |-> NoCallback]
\* The invocations, counted up to 2, of config.onQuestionShown, of
\* config.onAnswerPhaseStarted, of the onTimeout handler given to
\* startOptionsCountdown and of the default handler () => enterResult(-1).
NoCalls ==
    [onQuestionShown |-> 0, onAnswerPhaseStarted |-> 0, onTimeout |-> 0,
     defaultTimeout |-> 0]

\* The controller's state as one record, so that a handler is the
\* composition of the calls it makes.
Cur ==
    [phase |-> phase, remainingMs |-> remainingMs, selectedIndex |-> selectedIndex,
     isPaused |-> isPaused, timerRef |-> timerRef, resultTimeoutRef |-> resultTimeoutRef,
     leaked |-> leaked, optionsStartTimeRef |-> optionsStartTimeRef,
     responseTimeMsRef |-> responseTimeMsRef, pausedRemainingRef |-> pausedRemainingRef,
     pausedOnEndRef |-> pausedOnEndRef, currentOnEndRef |-> currentOnEndRef,
     resultStartTimeRef |-> resultStartTimeRef,
     pausedResultRemainingRef |-> pausedResultRemainingRef,
     pendingCountdownRef |-> pendingCountdownRef, completeCalls |-> completeCalls,
     callbackCalls |-> callbackCalls]

Commit(s) ==
    /\ phase' = s.phase
    /\ remainingMs' = s.remainingMs
    /\ selectedIndex' = s.selectedIndex
    /\ isPaused' = s.isPaused
    /\ timerRef' = s.timerRef
    /\ resultTimeoutRef' = s.resultTimeoutRef
    /\ leaked' = s.leaked
    /\ optionsStartTimeRef' = s.optionsStartTimeRef
    /\ responseTimeMsRef' = s.responseTimeMsRef
    /\ pausedRemainingRef' = s.pausedRemainingRef
    /\ pausedOnEndRef' = s.pausedOnEndRef
    /\ currentOnEndRef' = s.currentOnEndRef
    /\ resultStartTimeRef' = s.resultStartTimeRef
    /\ pausedResultRemainingRef' = s.pausedResultRemainingRef
    /\ pendingCountdownRef' = s.pendingCountdownRef
    /\ completeCalls' = s.completeCalls
    /\ callbackCalls' = s.callbackCalls

\* ------------------------------------------------------- the hook's code
\* useState / useRef initial values.  resultStartTimeRef starts at 0, a
\* timestamp at least resultDuration in the past.
InitState ==
    [phase |-> "idle", remainingMs |-> 0, selectedIndex |-> Null, isPaused |-> FALSE,
     timerRef |-> NoTimer, resultTimeoutRef |-> NoTimeout, leaked |-> <<>>,
     optionsStartTimeRef |-> Null, responseTimeMsRef |-> Null,
     pausedRemainingRef |-> 0, pausedOnEndRef |-> NoCallback,
     currentOnEndRef |-> NoCallback, resultStartTimeRef |-> resultDuration,
     pausedResultRemainingRef |-> 0, pendingCountdownRef |-> NoPending,
     completeCalls |-> 0, callbackCalls |-> NoCalls]

clearTimer(s) ==
    [s EXCEPT !.timerRef = NoTimer, !.resultTimeoutRef = NoTimeout]

startCountdown(s, duration, onEnd) ==
    [s EXCEPT !.currentOnEndRef = onEnd,
              !.remainingMs = duration,
              !.timerRef = [on |-> TRUE, onEnd |-> onEnd, duration |-> duration,
                            elapsed |-> 0, left |-> duration, sinceTick |-> 0]]

\* responseTimeMsRef after the capture of enterProcessing / enterResult
captureResponseTime(s) ==
    IF s.optionsStartTimeRef # Null /\ s.responseTimeMsRef = Null
    THEN s.optionsStartTimeRef
    ELSE s.responseTimeMsRef

enterProcessing(s) ==
    LET c == clearTimer(s)
    IN  [c EXCEPT !.phase = "processing", !.responseTimeMsRef = captureResponseTime(c)]

enterResult(s, optionIndex, skipResultTimeout) ==
    LET c == clearTimer(s)
        r == [c EXCEPT !.selectedIndex = optionIndex,
                       !.phase = "result",
                       !.responseTimeMsRef = captureResponseTime(c)]
    IN  IF ~skipResultTimeout
        THEN [r EXCEPT !.resultStartTimeRef = 0,
                       !.resultTimeoutRef = LiveTimeout(resultDuration)]
        ELSE r

\* startResultTimeout without the phase guard.
startResultTimeout_noPhaseGuard(s) ==
    [s EXCEPT !.resultTimeoutRef = LiveTimeout(resultDuration)]

startResultTimeout(s) ==
    IF s.phase # "result"
    THEN s
    ELSE [s EXCEPT !.resultTimeoutRef = LiveTimeout(resultDuration)]

\* questionOnEnd of start(), closed over delayOptionsCountdown
questionOnEnd(s, delayOptionsCountdown) ==
    LET o == [s EXCEPT !.phase = "options", !.optionsStartTimeRef = 0,
                       !.callbackCalls.onAnswerPhaseStarted = Min(@ + 1, 2)]
    IN  IF ~delayOptionsCountdown
        THEN startCountdown(o, optionsDuration, "optTimeout")
        ELSE o

\* RunCallback with the options timeout entering result with option 0
\* instead of -1.
RunCallback_timeoutAsOption(s, cb) ==
    CASE cb = "qEnd" -> questionOnEnd(s, FALSE)
      [] cb = "qEndDelay" -> questionOnEnd(s, TRUE)
      [] cb = "optTimeout" -> enterResult([s EXCEPT !.callbackCalls.defaultTimeout =
                                                        Min(@ + 1, 2)], 0, FALSE)
      [] cb = "custom" -> enterProcessing([s EXCEPT !.callbackCalls.onTimeout =
                                                        Min(@ + 1, 2)])
      [] OTHER -> s

\* The call of a countdown end callback.
RunCallback(s, cb) ==
    CASE cb = "qEnd" -> questionOnEnd(s, FALSE)
      [] cb = "qEndDelay" -> questionOnEnd(s, TRUE)
      [] cb = "optTimeout" -> enterResult([s EXCEPT !.callbackCalls.defaultTimeout =
                                                        Min(@ + 1, 2)], -1, FALSE)
      [] cb = "custom" -> enterProcessing([s EXCEPT !.callbackCalls.onTimeout =
                                                        Min(@ + 1, 2)])
      [] OTHER -> s

start(s, delayOptionsCountdown, delayQuestionCountdown) ==
    LET c == clearTimer(s)
        q == [c EXCEPT !.selectedIndex = Null, !.phase = "question", !.completeCalls = 0,
                       !.callbackCalls = [NoCalls EXCEPT !.onQuestionShown = 1]]
        onEnd == IF delayOptionsCountdown THEN "qEndDelay" ELSE "qEnd"
    IN  IF delayQuestionCountdown
        THEN [q EXCEPT !.remainingMs = questionDuration,
                       !.pendingCountdownRef = [set |-> TRUE, duration |-> questionDuration,
                                                onEnd |-> onEnd],
                       !.currentOnEndRef = onEnd]
        ELSE startCountdown(q, questionDuration, onEnd)

startOptionsCountdown(s, onTimeout) ==
    IF s.phase = "options"
    THEN startCountdown([s EXCEPT !.optionsStartTimeRef = 0], optionsDuration,
                        IF onTimeout # NoCallback THEN onTimeout ELSE "optTimeout")
    ELSE s

\* startQuestionCountdown without clearing the pending descriptor.
startQuestionCountdown_keepPending(s) ==
    LET pending == s.pendingCountdownRef
    IN  IF pending.set
        THEN startCountdown([s EXCEPT !.isPaused = FALSE], pending.duration, pending.onEnd)
        ELSE s

startQuestionCountdown(s) ==
    LET pending == s.pendingCountdownRef
    IN  IF pending.set
        THEN startCountdown([s EXCEPT !.pendingCountdownRef = NoPending, !.isPaused = FALSE],
                            pending.duration, pending.onEnd)
        ELSE s

\* select without the phase guard.
select_noPhaseGuard(s, index, skipResultTimeout) ==
    IF s.selectedIndex # Null
    THEN s
    ELSE enterResult(s, index, skipResultTimeout)

select(s, index, skipResultTimeout) ==
    IF s.phase # "options" \/ s.selectedIndex # Null
    THEN s
    ELSE enterResult(s, index, skipResultTimeout)

\* updateSelectedIndex without the phase guard.
updateSelectedIndex_noPhaseGuard(s, index) == [s EXCEPT !.selectedIndex = index]

updateSelectedIndex(s, index) ==
    IF s.phase = "result" THEN [s EXCEPT !.selectedIndex = index] ELSE s

\* pause without the snapshot of remainingMs.
pause_noSnapshot(s) ==
    LET p == [s EXCEPT !.timerRef = NoTimer,
                       !.pausedOnEndRef = s.currentOnEndRef]
        r == IF p.resultTimeoutRef.st # "null"
             THEN [p EXCEPT !.resultTimeoutRef = NoTimeout,
                            !.pausedResultRemainingRef =
                                Max(0, resultDuration - p.resultStartTimeRef)]
             ELSE p
    IN  [r EXCEPT !.isPaused = TRUE]

\* pause taking the remaining time to be 0 when no countdown is running.
pause_zeroWhenStopped(s) ==
    LET p == [s EXCEPT !.timerRef = NoTimer,
                       !.pausedRemainingRef = IF s.timerRef.on THEN s.remainingMs ELSE 0,
                       !.pausedOnEndRef = s.currentOnEndRef]
        r == IF p.resultTimeoutRef.st # "null"
             THEN [p EXCEPT !.resultTimeoutRef = NoTimeout,
                            !.pausedResultRemainingRef =
                                Max(0, resultDuration - p.resultStartTimeRef)]
             ELSE p
    IN  [r EXCEPT !.isPaused = TRUE]

pause(s) ==
    LET p == [s EXCEPT !.timerRef = NoTimer,
                       !.pausedRemainingRef = s.remainingMs,
                       !.pausedOnEndRef = s.currentOnEndRef]
        r == IF p.resultTimeoutRef.st # "null"
             THEN [p EXCEPT !.resultTimeoutRef = NoTimeout,
                            !.pausedResultRemainingRef =
                                Max(0, resultDuration - p.resultStartTimeRef)]
             ELSE p
    IN  [r EXCEPT !.isPaused = TRUE]

\* resume() overwrites resultTimeoutRef.current without clearing it: a
\* timeout that is live at that moment stays live with no ref to it.
resume(s) ==
    LET u == [s EXCEPT !.isPaused = FALSE]
        savedOnEnd == u.pausedOnEndRef
        savedRemaining == u.pausedRemainingRef
    IN  IF u.phase = "result" /\ u.pausedResultRemainingRef > 0
        THEN [u EXCEPT !.resultStartTimeRef = 0,
                       !.leaked = IF u.resultTimeoutRef.st = "live"
                                  THEN Append(@, u.resultTimeoutRef.left)
                                  ELSE @,
                       !.resultTimeoutRef = LiveTimeout(u.pausedResultRemainingRef),
                       !.pausedResultRemainingRef = 0]
        ELSE LET t == IF savedOnEnd # NoCallback /\ savedRemaining > 0
                      THEN startCountdown(u, savedRemaining, savedOnEnd)
                      ELSE IF savedOnEnd # NoCallback
                           THEN RunCallback(u, savedOnEnd)
                           ELSE u
             IN  [t EXCEPT !.pausedOnEndRef = NoCallback]

reset(s) ==
    LET c == clearTimer(s)
    IN  [c EXCEPT !.phase = "idle", !.selectedIndex = Null, !.remainingMs = 0,
                  !.isPaused = FALSE, !.optionsStartTimeRef = Null,
                  !.responseTimeMsRef = Null, !.pausedRemainingRef = 0,
                  !.pausedOnEndRef = NoCallback, !.currentOnEndRef = NoCallback,
                  !.pendingCountdownRef = NoPending,
                  !.resultStartTimeRef = resultDuration,
                  !.pausedResultRemainingRef = 0, !.completeCalls = 0,
                  !.callbackCalls = NoCalls]

getResponseTimeMs(s) == s.responseTimeMsRef

\* The result timeout's callback also returning the controller to idle.
onComplete_returnsToIdle(s) ==
    [s EXCEPT !.completeCalls = Min(@ + 1, MaxCalls), !.phase = "idle"]

\* The callback of every result timeout: onCompleteRef.current?.()
onComplete(s) == [s EXCEPT !.completeCalls = Min(@ + 1, MaxCalls)]

\* The setInterval callback of startCountdown, keeping the interval after
\* its end callback.
intervalCallback_keepsInterval(s) ==
    LET t == s.timerRef
        remaining == Max(0, t.duration - t.elapsed)
        r == [s EXCEPT !.remainingMs = remaining]
    IN  IF remaining <= 0
        THEN RunCallback([r EXCEPT !.timerRef.sinceTick = 0], t.onEnd)
        ELSE [r EXCEPT !.timerRef.sinceTick = 0]

\* The setInterval callback of startCountdown.
intervalCallback(s) ==
    LET t == s.timerRef
        remaining == Max(0, t.duration - t.elapsed)
        r == [s EXCEPT !.remainingMs = remaining]
    IN  IF remaining <= 0
        THEN RunCallback([r EXCEPT !.timerRef = NoTimer], t.onEnd)
        ELSE [r EXCEPT !.timerRef.sinceTick = 0]

\* ---------------------------------------------------------------- timers
RemoveAt(seq, i) == SubSeq(seq, 1, i - 1) \o SubSeq(seq, i + 1, Len(seq))

\* The number of timers that are live in the JavaScript runtime.
LiveTimers(s) ==
    (IF s.timerRef.on THEN 1 ELSE 0)
    + (IF s.resultTimeoutRef.st = "live" THEN 1 ELSE 0)
    + Len(s.leaked)

\* Time passes by one unit.  It does not pass while a timer callback is
\* MaxLate late.
advance(s) ==
    [s EXCEPT !.timerRef = IF @.on
                           THEN [@ EXCEPT !.left = Max(0, @ - 1),
                                           !.elapsed = Min(@ + 1, s.timerRef.duration),
                                           !.sinceTick = @ + 1]
                           ELSE @,
              !.resultTimeoutRef = IF @.st = "live" THEN [@ EXCEPT !.left = @ - 1] ELSE @,
              !.leaked = [i \in 1..Len(@) |-> @[i] - 1],
              !.optionsStartTimeRef = IF @ = Null THEN Null ELSE Min(@ + 1, MaxAge),
              !.resultStartTimeRef = Min(@ + 1, resultDuration)]

CanAdvance(s) ==
    /\ s.timerRef.on => s.timerRef.sinceTick < COUNTDOWN_INTERVAL + MaxLate
    /\ s.resultTimeoutRef.st = "live" => s.resultTimeoutRef.left > -MaxLate
    /\ \A i \in 1..Len(s.leaked) : s.leaked[i] > -MaxLate

\* ---------------------------------------------------- history variable
\* scn records the part of the call history the properties are about; no
\* operation reads it.
\*   k = "plain"       start() without delay options was called, `since`
\*                     units ago (counted until the result phase), and no
\*                     other operation since, except updateSelectedIndex
\*                     and startResultTimeout
\*   k = "loose"       as "plain", but startOptionsCountdown,
\*                     startQuestionCountdown or resume were also called
\*   k = "await"       start({delayQuestionCountdown: true}) was called and
\*                     only pause / resume since
\*   k = "selectNoop"  the last call was a select() outside the options
\*                     phase or with an answer already set
\*   k = "pausedCd"    the last call was pause() during the options
\*                     countdown, r units before its end
\*   k = "resumedCd"   ... followed by resume(), `since` units ago
\*   k = "firedCd"     ... and the options timeout has then fired, `since`
\*                     units after the resume()
\*   k = "pausedRes"   the last call was pause() with the result timeout
\*                     live, r units before it was due
\*   k = "resumedRes"  ... followed by resume()
\*   k = "none"        anything else
Scn(k) == [k |-> k, r |-> 0, since |-> 0]

AfterStart(dOpt, dQ) ==
    IF dQ THEN Scn("await") ELSE IF ~dOpt THEN Scn("plain") ELSE Scn("none")

\* after startOptionsCountdown, startQuestionCountdown
AfterRestart == IF scn.k \in {"plain", "loose"} THEN Scn("loose") ELSE Scn("none")

\* after updateSelectedIndex, startResultTimeout
AfterNeutral == IF scn.k \in {"plain", "loose"} THEN scn ELSE Scn("none")

AfterSelect ==
    IF phase # "options" \/ selectedIndex # Null THEN Scn("selectNoop") ELSE Scn("none")

AfterPause ==
    IF scn.k = "await" THEN scn
    ELSE IF timerRef.on /\ phase = "options" /\ timerRef.onEnd = "optTimeout"
         THEN [k |-> "pausedCd", r |-> timerRef.left, since |-> 0]
    ELSE IF ~timerRef.on /\ phase = "result" /\ resultTimeoutRef.st = "live" /\ leaked = <<>>
         THEN [k |-> "pausedRes", r |-> Max(0, resultTimeoutRef.left), since |-> 0]
    ELSE Scn("none")

AfterResume ==
    CASE scn.k = "await" -> scn
      [] scn.k \in {"plain", "loose"} -> Scn("loose")
      [] scn.k = "pausedCd" ->
            [scn EXCEPT !.k = IF resume(Cur).phase # phase THEN "firedCd" ELSE "resumedCd"]
      [] scn.k = "pausedRes" -> [scn EXCEPT !.k = "resumedRes"]
      [] OTHER -> Scn("none")

\* A countdown of duration d ends at its first tick at or after d, which is
\* less than one late tick after d.
CountdownEnd(d) == d + COUNTDOWN_INTERVAL + MaxLate - 1

\* The time start() with no delay option takes to reach the result phase by
\* its two countdowns.
PlainDeadline == CountdownEnd(questionDuration) + CountdownEnd(optionsDuration)

AfterAdvance ==
    IF scn.k \in {"resumedCd", "resumedRes"}
    THEN [scn EXCEPT !.since = Min(@ + 1, optionsDuration + MaxLate)]
    ELSE IF scn.k = "plain" /\ phase # "result"
         THEN [scn EXCEPT !.since = Min(@ + 1, PlainDeadline + 1)]
         ELSE scn

AfterTick ==
    IF scn.k = "resumedCd" /\ intervalCallback(Cur).phase # phase
    THEN [scn EXCEPT !.k = "firedCd"]
    ELSE scn

\* ----------------------------------- learn / practice / review screens
\* LearnScreen (src/app/_layout.tsx), PracticeScreen
\* (src/app/(main)/practice.tsx) and ReviewScreen
\* (src/app/(main)/review.tsx, the same code as src/unnamed/part_000).
\* scr holds the React state of the mounted screen, its countdown interval
\* and its outstanding timeouts and service calls.  The state updates of one
\* handler are committed in one render.  A function of the component closes
\* over the state of the render that created it: an option button calls the
\* handler of the latest render, an interval or timeout callback calls the
\* functions of the render that scheduled it.  That render's state is the
\* closure c below.  The screens' countdowns are not timed here: a running
\* interval can reach 0 at any moment and a timeout can fire at any moment.
\* A listening item runs through the screen as a reading item does.
Categories == {"reading", "speaking"}

\* The word ids of a session's items are distinct.
WordId(i) == 100 + i

\* The sessions the service returns: 1..MaxItems items, each with its word
\* id, the index of its correct option and (practice) the category of its
\* type.
Sessions(screen) ==
    UNION {{[i \in 1..n |-> [word_id |-> WordId(i - 1), correct_index |-> ci[i],
                              category |-> cat[i]]] :
               ci \in [1..n -> Indices],
               cat \in [1..n -> IF screen = "practice" THEN Categories
                                                        ELSE {"reading"}]} :
           n \in 1..MaxItems}

NoScreenTimer == [on |-> FALSE, kind |-> "none", c |-> <<>>]

\* The leave-confirmation dialog of handleBack: whether it is open, and
\* whether a countdown was running when it was opened.
NoDialog == [open |-> FALSE, countdown |-> FALSE]

\* useState / useRef initial values; screen = "none": no screen is mounted,
\* screen = "left": the user has left the screen.
ScreenInitState ==
    [screen |-> "none", session |-> <<>>, currentIndex |-> 0, phase |-> "loading",
     selectedOptionIndex |-> Null, answers |-> <<>>, currentExerciseType |-> "",
     displayCompleted |-> FALSE, timer |-> NoScreenTimer, pending |-> <<>>,
     submitted |-> <<>>, dialog |-> NoDialog]

\* The state a function created by the current render closes over.
Rendered(s) ==
    [currentIndex |-> s.currentIndex, selectedOptionIndex |-> s.selectedOptionIndex,
     answers |-> s.answers, currentExerciseType |-> s.currentExerciseType,
     displayCompleted |-> s.displayCompleted]

\* exercises[index] (and words[index], which has the same id)
ItemAt(s, index) == s.session[index + 1]

\* currentExercise / currentWord is defined
HasItem(s) == s.currentIndex < Len(s.session)

clearTimers(s) == [s EXCEPT !.timer = NoScreenTimer]

\* setTimeout(() => goToNext(), ...) and the pending service call of
\* goToExercise, with the closure they run in
Schedule(s, kind, c) == [s EXCEPT !.pending = Append(@, [kind |-> kind, c |-> c])]

\* setAnswers(prev => [...prev, {word_id, correct}]); the learn screen
\* keeps no answers.
appendAnswer(s, c, correct) ==
    IF s.screen = "learn" THEN s
    ELSE [s EXCEPT !.answers = Append(@, [word_id |-> ItemAt(s, c.currentIndex).word_id,
                                          correct |-> correct])]

\* handleTimeout without the setTimeout(() => goToNext(), 1500)
handleTimeout_noNext(s, c) ==
    IF c.selectedOptionIndex # Null
    THEN s
    ELSE [appendAnswer(s, c, FALSE) EXCEPT !.selectedOptionIndex = -1,
                                           !.phase = "result"]

handleTimeout(s, c) ==
    IF c.selectedOptionIndex # Null
    THEN s
    ELSE Schedule([appendAnswer(s, c, FALSE) EXCEPT !.selectedOptionIndex = -1,
                                                    !.phase = "result"],
                  "next", c)

handleOptionSelect_noCompare(s, c, index) ==
    IF c.selectedOptionIndex # Null
    THEN s
    ELSE Schedule([appendAnswer(clearTimers(s), c, TRUE) EXCEPT
                     !.selectedOptionIndex = index, !.phase = "result"],
                  "next", c)

handleOptionSelect(s, c, index) ==
    IF c.selectedOptionIndex # Null
    THEN s
    ELSE LET correct == index = ItemAt(s, c.currentIndex).correct_index
         IN  Schedule([appendAnswer(clearTimers(s), c, correct) EXCEPT
                          !.selectedOptionIndex = index, !.phase = "result"],
                      "next", c)

handleSpeakingConfirm(s, c, correct) ==
    Schedule(appendAnswer(s, c, correct), "next", c)

\* practiceService.submit(answers) / reviewService.submit(answers)
completeSession(s, c) ==
    [s EXCEPT !.phase = "complete", !.submitted = Append(@, c.answers)]

\* ReviewScreen, and LearnScreen, whose goToNext leaves selectedOptionIndex
\* and ends with learnService.complete(wordIds)
goToNext(s, c) ==
    IF c.currentIndex < Len(s.session) - 1
    THEN [s EXCEPT !.currentIndex = @ + 1, !.phase = "display",
                   !.selectedOptionIndex = IF s.screen = "learn" THEN @ ELSE Null]
    ELSE IF s.screen = "learn" THEN [s EXCEPT !.phase = "complete"]
    ELSE completeSession(s, c)

\* PracticeScreen
goToNextExercise(s, c) ==
    IF c.currentIndex < Len(s.session) - 1
    THEN LET nextCategory == ItemAt(s, c.currentIndex + 1).category
             n == IF nextCategory # c.currentExerciseType
                  THEN [s EXCEPT !.currentExerciseType = nextCategory, !.phase = "intro"]
                  ELSE [s EXCEPT !.phase = "exercise"]
         IN  [n EXCEPT !.currentIndex = @ + 1, !.selectedOptionIndex = Null]
    ELSE completeSession(s, c)

\* ReviewScreen goToExercise, after reviewService.complete() has returned
\* (ok) or thrown, or at once when the display was completed before.
goToExercise(s, c, ok) ==
    LET d == IF ~c.displayCompleted /\ ok THEN [s EXCEPT !.displayCompleted = TRUE] ELSE s
    IN  [d EXCEPT !.phase = "exercise", !.selectedOptionIndex = Null]

\* The countdown effects, after the render of state s that follows state
\* old: when phase or currentIndex has changed the cleanup clears the
\* interval, and the display (learn, review) or exercise phase (not for a
\* speaking item) starts one that closes over the new render.
RunEffects(old, s) ==
    IF old.phase = s.phase /\ old.currentIndex = s.currentIndex /\ old.session = s.session
    THEN s
    ELSE LET c == clearTimers(s)
         IN  IF ~HasItem(s) THEN c
             ELSE IF s.screen \in {"learn", "review"} /\ s.phase = "display"
             THEN [c EXCEPT !.timer = [on |-> TRUE, kind |-> "display", c |-> Rendered(s)]]
             ELSE IF s.phase = "exercise" /\ ItemAt(s, s.currentIndex).category # "speaking"
             THEN [c EXCEPT !.timer = [on |-> TRUE, kind |-> "exercise", c |-> Rendered(s)]]
             ELSE c

\* loadSession, when getSession() has returned an available session
handleBack(s) ==
    [clearTimers(s) EXCEPT !.dialog = [open |-> TRUE, countdown |-> s.timer.on]]

loadSession(s, data) ==
    LET l == [s EXCEPT !.session = data]
    IN  IF s.screen \in {"learn", "review"}
        THEN [l EXCEPT !.phase = "display"]
        ELSE [l EXCEPT !.currentExerciseType = data[1].category, !.phase = "intro"]

\* ----------------------------------------------------------- useSpeech
\* sp holds isSpeaking, soundRef, the calls of speak() and cancel() made so
\* far with the await each of them stands at, the sounds created by
\* Audio.Sound.createAsync and the utterances handed to Speech.speak.
\* Call k owns sound k.  soundRef = 0 is null.
\*   pc of a call: "cancelStop"   awaiting soundRef.current.stopAsync()
\*                 "cancelUnload" awaiting soundRef.current.unloadAsync()
\*                 "create"       awaiting Audio.Sound.createAsync
\*                 "playing"      promise returned, waits for didJustFinish
\*                 "tts"          promise returned, waits for onDone / onError
\*                 "done"         promise resolved
\* The continuation of an await whose promise is already resolved runs
\* before any other event, so it is part of the same step.
Texts == {"cat", "dog"}

SpeechInitState ==
    [isSpeaking |-> FALSE, soundRef |-> 0, calls |-> <<>>, sounds |-> <<>>,
     utter |-> {}]

\* Speech.stop(): the utterances are dropped; expo-speech reports a stopped
\* utterance through onStopped, which speak() does not pass.
SpeechStop(s) == [s EXCEPT !.utter = {}]

\* The text-to-speech promise of call k: setIsSpeaking(true), Speech.speak(text)
startTts(s, k) ==
    [s EXCEPT !.isSpeaking = TRUE, !.utter = @ \cup {k},
              !.calls[k].spoken = s.calls[k].text, !.calls[k].pc = "tts"]

\* speak() after `await cancel()`; a call of cancel() ends here.
afterCancel(s, k) ==
    IF s.calls[k].kind = "cancel" THEN [s EXCEPT !.calls[k].pc = "done"]
    ELSE IF s.calls[k].url THEN [s EXCEPT !.calls[k].pc = "create"]
    ELSE startTts(s, k)

\* The end of cancel(): Speech.stop(); setIsSpeaking(false)
finishCancel(s, k) ==
    afterCancel([SpeechStop(s) EXCEPT !.isSpeaking = FALSE], k)

\* The start of cancel(), up to its first await
cancel(s, k) ==
    IF s.soundRef # 0
    THEN [s EXCEPT !.calls[k].pc = "cancelStop", !.calls[k].target = s.soundRef]
    ELSE finishCancel(s, k)

\* stopAsync() has returned (ok) or thrown.
stopReturns(s, k, ok) ==
    LET target == s.calls[k].target
        stopped == IF ok /\ s.sounds[target] = "playing"
                   THEN [s EXCEPT !.sounds[target] = "stopped"] ELSE s
    IN  IF ok /\ s.soundRef # 0
        THEN [stopped EXCEPT !.calls[k].pc = "cancelUnload", !.calls[k].target = s.soundRef]
        ELSE finishCancel([stopped EXCEPT !.soundRef = 0], k)

\* unloadAsync() has returned (ok) or thrown.
unloadReturns(s, k, ok) ==
    LET target == s.calls[k].target
        unloaded == IF ok THEN [s EXCEPT !.sounds[target] = "unloaded"] ELSE s
    IN  finishCancel([unloaded EXCEPT !.soundRef = 0], k)

\* createAsync has thrown: the catch block falls through to text-to-speech.
createFailed_noFallback(s, k) ==
    [s EXCEPT !.calls[k].failed = TRUE, !.calls[k].pc = "done"]

createFailed(s, k) == startTts([s EXCEPT !.calls[k].failed = TRUE], k)

\* createAsync({uri}, {shouldPlay: true}) has returned the sound.
created(s, k) ==
    [s EXCEPT !.sounds[k] = "playing", !.soundRef = k, !.isSpeaking = TRUE,
              !.calls[k].pc = "playing"]

\* The playback status callback of sound k, for a status with isLoaded and
\* didJustFinish
playbackFinished(s, k) ==
    [s EXCEPT !.isSpeaking = FALSE, !.sounds[k] = "unloaded", !.soundRef = 0,
              !.calls[k].pc = "done"]

\* The playback status callback of sound k, for the status of a playback
\* error (isLoaded false): the callback does nothing.
playbackError(s, k) ==
    [s EXCEPT !.sounds[k] = "failed", !.calls[k].failed = TRUE]

\* onDone / onError of the utterance of call k
ttsEnded(s, k) ==
    [s EXCEPT !.isSpeaking = FALSE, !.utter = @ \ {k}, !.calls[k].pc = "done"]

NewCall(kind, text, url) ==
    [kind |-> kind, text |-> text, url |-> url, pc |-> "new", target |-> 0,
     spoken |-> "", failed |-> FALSE]

\* ----------------------------------------------------------- useCoachMark
\* src/unnamed/part_002, useCoachMark, with the AsyncStorage it reads and
\* writes.  storage[key] is TRUE when "true" is stored under the key.
StorageKeys == {"coachA", "coachB"}

\* No component is mounted and nothing is stored.  reading: check() awaits
\* getItem; writes: the keys of the setItem calls that have not returned;
\* marked: markAsSeen() was called in this mount; seenAtMount: the key was
\* stored when the component was mounted; readFailed: getItem has thrown.
CoachInitState ==
    [storage |-> [k \in StorageKeys |-> FALSE], mounted |-> FALSE, key |-> "coachA",
     shouldShow |-> FALSE, isLoading |-> TRUE, reading |-> FALSE, writes |-> <<>>,
     marked |-> FALSE, seenAtMount |-> FALSE, readFailed |-> FALSE]

\* useState(false), useState(true), and the effect that calls check()
mountCoachMark(s, key) ==
    [s EXCEPT !.mounted = TRUE, !.key = key, !.shouldShow = FALSE,
              !.isLoading = TRUE, !.reading = TRUE, !.marked = FALSE,
              !.seenAtMount = s.storage[key], !.readFailed = FALSE]

\* check() after `await AsyncStorage.getItem(storageKey)` has returned the
\* stored value (ok) or thrown
check(s, ok) ==
    [s EXCEPT !.shouldShow = IF ok THEN ~s.storage[s.key] ELSE FALSE,
              !.isLoading = FALSE, !.reading = FALSE, !.readFailed = ~ok]

\* markAsSeen() up to `await AsyncStorage.setItem(storageKey, "true")`
markAsSeen(s) ==
    [s EXCEPT !.shouldShow = FALSE, !.writes = Append(@, s.key), !.marked = TRUE]

\* The i-th outstanding setItem has stored the value (ok) or thrown.
setItemReturns(s, i, ok) ==
    [s EXCEPT !.writes = SubSeq(@, 1, i - 1) \o SubSeq(@, i + 1, Len(@)),
              !.storage[s.writes[i]] = IF ok THEN TRUE ELSE @]

\* The component is unmounted: the state updates of a check() that is still
\* waiting are dropped.
unmountCoachMark(s) == [s EXCEPT !.mounted = FALSE, !.reading = FALSE]

\* -------------------------------------------------------- useDisplayPhase
\* src/unnamed/part_002, useDisplayPhase.  Time is counted in units of
\* COUNTDOWN_INTERVAL; a callback prop is a function value, "none" is an
\* omitted onStart.
DisplayDurations == {1, 2}

DisplayProps ==
    [isActive : BOOLEAN, onStart : {"none", "startA", "startB"},
     onComplete : {"completeA", "completeB"}, duration : DisplayDurations]

\* The hook is not mounted.  timer is the interval of timerRef with the time
\* since its effect ran; startCalls, completeCalls and countdowns count the
\* invocations of onStart and onComplete and the countdowns started since
\* isActive became true (each up to 2); last is the step taken last.
DisplayInitState ==
    [mounted |-> FALSE,
     props |-> [isActive |-> FALSE, onStart |-> "none", onComplete |-> "completeA",
                duration |-> 1],
     remainingMs |-> 1, timer |-> [on |-> FALSE, elapsed |-> 0],
     startCalls |-> 0, completeCalls |-> 0, countdowns |-> 0, last |-> "none"]

clearDisplayTimer(s) == [s EXCEPT !.timer = [on |-> FALSE, elapsed |-> 0]]

\* The body of the countdown effect
displayEffect(s) ==
    IF s.props.isActive
    THEN [s EXCEPT !.startCalls = IF s.props.onStart # "none" THEN Min(@ + 1, 2) ELSE @,
                   !.remainingMs = s.props.duration,
                   !.timer = [on |-> TRUE, elapsed |-> 0],
                   !.countdowns = Min(@ + 1, 2)]
    ELSE s

\* The host renders the hook with the given props: when a dependency of
\* the effect has changed, its cleanup and then its body run.
renderDisplay(s, props) ==
    LET activated == props.isActive /\ ~(s.mounted /\ s.props.isActive)
        r == [s EXCEPT !.mounted = TRUE, !.props = props, !.last = "render",
                       !.startCalls = IF activated THEN 0 ELSE @,
                       !.completeCalls = IF activated THEN 0 ELSE @,
                       !.countdowns = IF activated THEN 0 ELSE @]
    IN  IF s.mounted /\ s.props = props
        THEN r
        ELSE displayEffect(clearDisplayTimer(r))

\* The interval callback
displayTick(s) ==
    LET elapsed == Min(s.timer.elapsed + 1, s.props.duration)
        remaining == Max(0, s.props.duration - elapsed)
        t == [s EXCEPT !.timer.elapsed = elapsed, !.remainingMs = remaining,
                       !.last = "tick"]
    IN  IF remaining <= 0
        THEN [clearDisplayTimer(t) EXCEPT !.completeCalls = Min(@ + 1, 2),
                                          !.last = "complete"]
        ELSE t

\* The cleanups of both effects at unmount
unmountDisplay(s) == [clearDisplayTimer(s) EXCEPT !.mounted = FALSE, !.last = "unmount"]

\* ---------------------------------------------------------- refreshSignal
\* src/utils/refreshSignal.ts.  A callback is a function value; the module
\* compares callbacks by identity.
SignalCallbacks == {"refreshA", "refreshB"}

\* let subscriber = null.  subs lists the unsubscribe functions returned so
\* far, each with the callback it closes over and the number of times it
\* was called (counted up to 2); invoked lists the callbacks the last
\* trigger() invoked; last is the operation called last.
SignalInitState ==
    [subscriber |-> "null", subs |-> <<>>, invoked |-> <<>>,
     last |-> [op |-> "none", h |-> 0]]

subscribe(s, callback) ==
    [s EXCEPT !.subscriber = callback,
              !.subs = Append(@, [callback |-> callback, calls |-> 0]),
              !.last = [op |-> "subscribe", h |-> Len(s.subs) + 1]]

\* The function returned by the h-th subscribe()
unsubscribe(s, h) ==
    [s EXCEPT !.subscriber = IF @ = s.subs[h].callback THEN "null" ELSE @,
              !.subs[h].calls = Min(@ + 1, 2),
              !.last = [op |-> "unsubscribe", h |-> h]]

trigger(s) ==
    [s EXCEPT !.invoked = IF s.subscriber # "null" THEN <<s.subscriber>> ELSE <<>>,
              !.last = [op |-> "trigger", h |-> 0]]

\* ------------------------------------------------ history of the calls
\* hist records the last operation called where a property is about it; no
\* operation reads it.
\*   last = "sqc"        startQuestionCountdown() with a countdown pending
\*   last = "sqcNoop"    ... followed by a second startQuestionCountdown()
\*   last = "optNoop"    startOptionsCountdown() outside the options phase
\*   last = "bothNoop"   ... followed by startResultTimeout() outside the
\*                       result phase
\*   last = "skipRes"    enterResult(i, true), or select(i, true) that was
\*                       accepted, and only updateSelectedIndex since
\*   last = "srt"        startResultTimeout() in the result phase, and only
\*                       updateSelectedIndex since
\*   last = "usi"        updateSelectedIndex() in the result phase, not after
\*                       one of the two above; n = 1 if it changed the answer
\*   last = "pause"      the last n calls (counted up to 2) were pause()
\*   last = "pauseIdle"  as "pause", and the first of them found no timer
\*                       live and no pause outstanding
\*   last = "reset"      reset(); n = 1 if a cycle had been started
\*   last = "none"       anything else
\*   started             start() was called since construction / reset()
\*   pausedSince         pause() was called since construction / reset() /
\*                       the last resume()
\*   optWait = "wait"    the cycle was started with delayOptionsCountdown
\*                       and neither startOptionsCountdown() nor
\*                       enterProcessing() was called nor an answer entered
\*                       (enterResult(), an accepted select()) since
\*   optWait = "custom"  ... and startOptionsCountdown(onTimeout) was then
\*                       called in the options phase, with a handler, and
\*                       none of these calls was made since
\*   optWait = "no"      anything else
\*   awaited             the cycle was started with delayQuestionCountdown
\*                       and startQuestionCountdown() was not called since
H(l, n) ==
    [last |-> l, n |-> n, started |-> hist.started, pausedSince |-> hist.pausedSince,
     optWait |-> hist.optWait, awaited |-> hist.awaited]

HistStart(delayOptionsCountdown, delayQuestionCountdown) ==
    [H("none", 0) EXCEPT !.started = TRUE,
                         !.optWait = IF delayOptionsCountdown THEN "wait" ELSE "no",
                         !.awaited = delayQuestionCountdown]

HistStartOptionsCountdown(onTimeout) ==
    [(IF phase # "options" THEN H("optNoop", 0) ELSE H("none", 0)) EXCEPT
        !.optWait = IF hist.optWait = "wait" /\ phase = "options" /\ onTimeout # NoCallback
                    THEN "custom" ELSE "no"]

HistStartQuestionCountdown ==
    [(IF pendingCountdownRef.set THEN H("sqc", 0)
      ELSE IF hist.last = "sqc" THEN H("sqcNoop", 0)
      ELSE H("none", 0)) EXCEPT !.awaited = FALSE]

HistSelect(skip) ==
    IF phase = "options" /\ selectedIndex = Null
    THEN [H(IF skip THEN "skipRes" ELSE "none", 0) EXCEPT !.optWait = "no"]
    ELSE H("none", 0)

HistEnterResult(skip) ==
    [H(IF skip THEN "skipRes" ELSE "none", 0) EXCEPT !.optWait = "no"]

HistEnterProcessing == [H("none", 0) EXCEPT !.optWait = "no"]

HistStartResultTimeout ==
    IF phase = "result" THEN H("srt", 0)
    ELSE IF hist.last = "optNoop" THEN H("bothNoop", 0)
    ELSE H("none", 0)

HistUpdateSelectedIndex(index) ==
    IF hist.last \in {"skipRes", "srt"} THEN hist
    ELSE IF phase = "result" THEN H("usi", IF index # selectedIndex THEN 1 ELSE 0)
    ELSE H("none", 0)

HistPause ==
    LET h == IF hist.last \in {"pause", "pauseIdle"}
             THEN [hist EXCEPT !.n = Min(@ + 1, 2)]
             ELSE IF LiveTimers(Cur) = 0 /\ ~hist.pausedSince
                  THEN H("pauseIdle", 1)
                  ELSE H("pause", 1)
    IN  [h EXCEPT !.pausedSince = TRUE]

HistResume == [H("none", 0) EXCEPT !.pausedSince = FALSE]

HistReset ==
    [last |-> "reset", n |-> IF hist.started THEN 1 ELSE 0,
     started |-> FALSE, pausedSince |-> FALSE, optWait |-> "no", awaited |-> FALSE]

\* --------------------------------------------------------------- actions
Init ==
    /\ phase = InitState.phase
    /\ remainingMs = InitState.remainingMs
    /\ selectedIndex = InitState.selectedIndex
    /\ isPaused = InitState.isPaused
    /\ timerRef = InitState.timerRef
    /\ resultTimeoutRef = InitState.resultTimeoutRef
    /\ leaked = InitState.leaked
    /\ optionsStartTimeRef = InitState.optionsStartTimeRef
    /\ responseTimeMsRef = InitState.responseTimeMsRef
    /\ pausedRemainingRef = InitState.pausedRemainingRef
    /\ pausedOnEndRef = InitState.pausedOnEndRef
    /\ currentOnEndRef = InitState.currentOnEndRef
    /\ resultStartTimeRef = InitState.resultStartTimeRef
    /\ pausedResultRemainingRef = InitState.pausedResultRemainingRef
    /\ pendingCountdownRef = InitState.pendingCountdownRef
    /\ completeCalls = InitState.completeCalls
    /\ callbackCalls = InitState.callbackCalls
    /\ ops = 0
    /\ scn = Scn("none")
    /\ hist = [last |-> "none", n |-> 0, started |-> FALSE, pausedSince |-> FALSE,
               optWait |-> "no", awaited |-> FALSE]
    /\ scr = ScreenInitState
    /\ sp = SpeechInitState
    /\ cm = CoachInitState
    /\ dp = DisplayInitState
    /\ rs = SignalInitState

\* A call of a controller operation that leaves the controller in state s.
Call(s, h, g) ==
    /\ ops' = ops + 1
    /\ scn' = h
    /\ hist' = g
    /\ Commit(s)
    /\ UNCHANGED <<scr, sp, cm, dp, rs>>

\* A step of the environment: time passing, or a timer callback.
Env(s, h) ==
    /\ UNCHANGED <<ops, hist, scr, sp, cm, dp, rs>>
    /\ scn' = h
    /\ Commit(s)

Start ==
    \E dOpt \in BOOLEAN, dQ \in BOOLEAN :
        /\ ops < MaxOps
        /\ Call(start(Cur, dOpt, dQ), AfterStart(dOpt, dQ), HistStart(dOpt, dQ))

StartOptionsCountdown ==
    \E onTimeout \in {NoCallback, "custom"} :
        /\ ops < MaxOps
        /\ Call(startOptionsCountdown(Cur, onTimeout), AfterRestart,
                HistStartOptionsCountdown(onTimeout))

StartQuestionCountdown ==
    /\ ops < MaxOps
    /\ Call(startQuestionCountdown(Cur), AfterRestart, HistStartQuestionCountdown)

Select ==
    \E i \in Indices, skip \in BOOLEAN :
        /\ ops < MaxOps
        /\ Call(select(Cur, i, skip), AfterSelect, HistSelect(skip))

EnterProcessing ==
    /\ ops < MaxOps
    /\ Call(enterProcessing(Cur), Scn("none"), HistEnterProcessing)

EnterResult ==
    \E i \in Indices \cup {-1}, skip \in BOOLEAN :
        /\ ops < MaxOps
        /\ Call(enterResult(Cur, i, skip), Scn("none"), HistEnterResult(skip))

StartResultTimeout ==
    /\ ops < MaxOps
    /\ Call(startResultTimeout(Cur), AfterNeutral, HistStartResultTimeout)

UpdateSelectedIndex ==
    \E i \in Indices \cup {-1} :
        /\ ops < MaxOps
        /\ Call(updateSelectedIndex(Cur, i), AfterNeutral, HistUpdateSelectedIndex(i))

Pause ==
    /\ ops < MaxOps
    /\ Call(pause(Cur), AfterPause, HistPause)

Resume ==
    /\ ops < MaxOps
    /\ Len(resume(Cur).leaked) <= MaxLeaked
    /\ Call(resume(Cur), AfterResume, HistResume)

Reset ==
    /\ ops < MaxOps
    /\ Call(reset(Cur), Scn("none"), HistReset)

AdvanceTime ==
    /\ CanAdvance(Cur)
    /\ Env(advance(Cur), AfterAdvance)

IntervalTick ==
    /\ timerRef.on
    /\ timerRef.sinceTick >= COUNTDOWN_INTERVAL
    /\ Env(intervalCallback(Cur), AfterTick)

ResultTimeoutFires ==
    /\ resultTimeoutRef.st = "live"
    /\ resultTimeoutRef.left <= 0
    /\ Env(onComplete([Cur EXCEPT !.resultTimeoutRef = StaleTimeout]), scn)

LeakedTimeoutFires ==
    \E i \in 1..Len(leaked) :
        /\ leaked[i] <= 0
        /\ Env(onComplete([Cur EXCEPT !.leaked = RemoveAt(@, i)]), scn)

Next ==
    \/ Start
    \/ StartOptionsCountdown
    \/ StartQuestionCountdown
    \/ Select
    \/ EnterProcessing
    \/ EnterResult
    \/ StartResultTimeout
    \/ UpdateSelectedIndex
    \/ Pause
    \/ Resume
    \/ Reset
    \/ AdvanceTime
    \/ IntervalTick
    \/ ResultTimeoutFires
    \/ LeakedTimeoutFires

vars == <<ctl, ops, scn, hist, scr, sp, cm, dp, rs>>

Spec == Init /\ [][Next]_vars

\* ------------------------------------------------------- screen actions
\* A handler of the screen leaves it in state s; the render that follows
\* runs the effects.
ScreenStep(s) ==
    /\ scr' = RunEffects(scr, s)
    /\ UNCHANGED <<ctl, ops, scn, hist, sp, cm, dp, rs>>

\* The router opens the learn, the practice or the review screen.
Mount ==
    \E screen \in {"learn", "practice", "review"} :
        /\ scr.screen = "none"
        /\ ScreenStep([scr EXCEPT !.screen = screen])

LoadSession ==
    \E data \in Sessions(scr.screen) :
        /\ scr.screen \notin {"none", "left"}
        /\ scr.phase = "loading" /\ scr.session = <<>>
        /\ ScreenStep(loadSession(scr, data))

\* The start button of the practice intro: onPress={() => setPhase("exercise")}
PressStart ==
    /\ scr.screen = "practice" /\ scr.phase = "intro" /\ ~scr.dialog.open
    /\ ScreenStep([scr EXCEPT !.phase = "exercise"])

\* An option button, rendered enabled in the exercise phase.
PressOption ==
    \E index \in Indices :
        /\ scr.phase = "exercise" /\ HasItem(scr) /\ ~scr.dialog.open
        /\ ItemAt(scr, scr.currentIndex).category # "speaking"
        /\ ScreenStep(handleOptionSelect(scr, Rendered(scr), index))

\* One of the two buttons of a speaking item.
PressSpeakingConfirm ==
    \E correct \in BOOLEAN :
        /\ scr.screen = "practice" /\ scr.phase = "exercise" /\ HasItem(scr)
        /\ ~scr.dialog.open
        /\ ItemAt(scr, scr.currentIndex).category = "speaking"
        /\ Len(scr.pending) < MaxPending
        /\ ScreenStep(handleSpeakingConfirm(scr, Rendered(scr), correct))

\* The interval callback at remaining <= 0: clearTimers(), then
\* handleTimeout() or goToExercise() of the render that started it; the
\* display countdown of the learn screen enters the exercise phase itself.
CountdownExpires ==
    /\ scr.timer.on
    /\ LET c == scr.timer.c
           s == clearTimers(scr)
       IN  IF scr.timer.kind = "exercise"
           THEN ScreenStep(handleTimeout(s, c))
           ELSE IF scr.screen = "learn"
                THEN ScreenStep([s EXCEPT !.phase = "exercise",
                                          !.selectedOptionIndex = Null])
           ELSE IF c.displayCompleted
                THEN ScreenStep(goToExercise(s, c, TRUE))
                ELSE ScreenStep(Schedule(s, "complete", c))

\* A scheduled goToNext() runs, or reviewService.complete() returns or
\* throws.
PendingFires ==
    \E i \in 1..Len(scr.pending), ok \in BOOLEAN :
        LET e == scr.pending[i]
            s == [scr EXCEPT !.pending = RemoveAt(@, i)]
        IN  IF e.kind = "complete"
            THEN ScreenStep(goToExercise(s, e.c, ok))
            ELSE /\ ok
                 /\ IF scr.screen \in {"learn", "review"}
                    THEN ScreenStep(goToNext(s, e.c))
                    ELSE ScreenStep(goToNextExercise(s, e.c))

\* The back button of the header, in every phase but loading and complete.
HandleBack ==
    /\ scr.screen \notin {"none", "left"}
    /\ scr.phase \notin {"loading", "complete"}
    /\ ~scr.dialog.open
    /\ ScreenStep(handleBack(scr))

\* The cancel button of the dialog, which has no onPress.
CancelDialog ==
    /\ scr.dialog.open
    /\ ScreenStep([scr EXCEPT !.dialog.open = FALSE])

\* The leave button of the dialog: router.back().  The callbacks that are
\* still scheduled then find the screen unmounted.
LeaveDialog ==
    /\ scr.dialog.open
    /\ ScreenStep([ScreenInitState EXCEPT !.screen = "left"])

NextScreen ==
    \/ Mount
    \/ LoadSession
    \/ PressStart
    \/ PressOption
    \/ PressSpeakingConfirm
    \/ CountdownExpires
    \/ PendingFires
    \/ HandleBack
    \/ CancelDialog
    \/ LeaveDialog

SpecScreen == Init /\ [][NextScreen]_vars

\* ------------------------------------------------------- speech actions
SpeechStep(s) ==
    /\ sp' = s
    /\ UNCHANGED <<ctl, ops, scn, hist, scr, cm, dp, rs>>

\* speak(text, audioUrl) is called, with or without an audio URL.
Speak ==
    \E text \in Texts, url \in BOOLEAN :
        /\ Len(sp.calls) < MaxSpeak
        /\ LET k == Len(sp.calls) + 1
           IN  SpeechStep(cancel([sp EXCEPT !.calls = Append(@, NewCall("speak", text, url)),
                                            !.sounds = Append(@, "none")], k))

\* cancel() is called.
Cancel ==
    /\ Len(sp.calls) < MaxSpeak
    /\ LET k == Len(sp.calls) + 1
       IN  SpeechStep(cancel([sp EXCEPT !.calls = Append(@, NewCall("cancel", "", FALSE)),
                                        !.sounds = Append(@, "none")], k))

StopReturns ==
    \E k \in 1..Len(sp.calls), ok \in BOOLEAN :
        /\ sp.calls[k].pc = "cancelStop"
        /\ SpeechStep(stopReturns(sp, k, ok))

UnloadReturns ==
    \E k \in 1..Len(sp.calls), ok \in BOOLEAN :
        /\ sp.calls[k].pc = "cancelUnload"
        /\ SpeechStep(unloadReturns(sp, k, ok))

CreateReturns ==
    \E k \in 1..Len(sp.calls) :
        /\ sp.calls[k].pc = "create"
        /\ SpeechStep(created(sp, k))

CreateFails ==
    \E k \in 1..Len(sp.calls) :
        /\ sp.calls[k].pc = "create"
        /\ SpeechStep(createFailed(sp, k))

PlaybackFinishes ==
    \E k \in 1..Len(sp.calls) :
        /\ sp.calls[k].pc = "playing" /\ sp.sounds[k] = "playing"
        /\ SpeechStep(playbackFinished(sp, k))

PlaybackFails ==
    \E k \in 1..Len(sp.calls) :
        /\ sp.calls[k].pc = "playing" /\ sp.sounds[k] = "playing"
        /\ SpeechStep(playbackError(sp, k))

TtsEnds ==
    \E k \in sp.utter :
        SpeechStep(ttsEnded(sp, k))

NextSpeech ==
    \/ Speak
    \/ Cancel
    \/ StopReturns
    \/ UnloadReturns
    \/ CreateReturns
    \/ CreateFails
    \/ PlaybackFinishes
    \/ PlaybackFails
    \/ TtsEnds

SpecSpeech == Init /\ [][NextSpeech]_vars

\* --------------------------------------------------- useCoachMark actions
CoachStep(s) ==
    /\ cm' = s
    /\ UNCHANGED <<ctl, ops, scn, hist, scr, sp, dp, rs>>

MountCoachMark ==
    \E key \in StorageKeys :
        /\ ~cm.mounted
        /\ CoachStep(mountCoachMark(cm, key))

GetItemReturns ==
    \E ok \in BOOLEAN :
        /\ cm.mounted /\ cm.reading
        /\ CoachStep(check(cm, ok))

MarkAsSeen ==
    /\ cm.mounted /\ Len(cm.writes) < MaxWrites
    /\ CoachStep(markAsSeen(cm))

SetItemReturns ==
    \E i \in 1..Len(cm.writes), ok \in BOOLEAN :
        /\ cm' = setItemReturns(cm, i, ok)
        /\ UNCHANGED <<ctl, ops, scn, hist, scr, sp, dp, rs>>

UnmountCoachMark ==
    /\ cm.mounted
    /\ CoachStep(unmountCoachMark(cm))

NextCoach ==
    \/ MountCoachMark
    \/ GetItemReturns
    \/ MarkAsSeen
    \/ SetItemReturns
    \/ UnmountCoachMark

SpecCoach == Init /\ [][NextCoach]_vars

\* ------------------------------------------------ useDisplayPhase actions
DisplayStep(s) ==
    /\ dp' = s
    /\ UNCHANGED <<ctl, ops, scn, hist, scr, sp, cm, rs>>

\* The first and every later render of the host component
RenderDisplay ==
    \E props \in DisplayProps :
        /\ dp' = renderDisplay(dp, props)
        /\ UNCHANGED <<ctl, ops, scn, hist, scr, sp, cm, rs>>

DisplayTick ==
    /\ dp.timer.on
    /\ DisplayStep(displayTick(dp))

\* The host calls the clearTimer() the hook returns.
ClearDisplayTimer ==
    /\ dp.mounted
    /\ DisplayStep([clearDisplayTimer(dp) EXCEPT !.last = "clear"])

UnmountDisplay ==
    /\ dp.mounted
    /\ DisplayStep(unmountDisplay(dp))

NextDisplay ==
    \/ RenderDisplay
    \/ DisplayTick
    \/ ClearDisplayTimer
    \/ UnmountDisplay

SpecDisplay == Init /\ [][NextDisplay]_vars

\* -------------------------------------------------- refreshSignal actions
SignalStep(s) ==
    /\ rs' = s
    /\ UNCHANGED <<ctl, ops, scn, hist, scr, sp, cm, dp>>

Subscribe ==
    \E callback \in SignalCallbacks :
        /\ Len(rs.subs) < MaxSubs
        /\ SignalStep(subscribe(rs, callback))

Unsubscribe ==
    \E h \in 1..Len(rs.subs) :
        /\ rs' = unsubscribe(rs, h)
        /\ UNCHANGED <<ctl, ops, scn, hist, scr, sp, cm, dp>>

\* NotificationHandler: the user has tapped a notification.
Trigger ==
    /\ rs' = trigger(rs)
    /\ UNCHANGED <<ctl, ops, scn, hist, scr, sp, cm, dp>>

NextSignal ==
    \/ Subscribe
    \/ Unsubscribe
    \/ Trigger

SpecSignal == Init /\ [][NextSignal]_vars

TypeOK ==
    /\ phase \in {"idle", "question", "options", "processing", "result"}
    /\ remainingMs \in 0..optionsDuration
    /\ selectedIndex \in {Null, -1} \cup Indices
    /\ isPaused \in BOOLEAN
    /\ timerRef.on \in BOOLEAN
    /\ resultTimeoutRef.st \in {"null", "live", "stale"}
    /\ Len(leaked) <= MaxLeaked
    /\ optionsStartTimeRef \in {Null} \cup (0..MaxAge)
    /\ responseTimeMsRef \in {Null} \cup (0..MaxAge)
    /\ pausedOnEndRef \in Callbacks \cup {NoCallback}
    /\ currentOnEndRef \in Callbacks \cup {NoCallback}
    /\ resultStartTimeRef \in 0..resultDuration
    /\ pausedResultRemainingRef \in 0..resultDuration
    /\ completeCalls \in 0..MaxCalls
    /\ callbackCalls \in [DOMAIN NoCalls -> 0..2]
    /\ ops \in 0..MaxOps
    /\ hist.n \in 0..2
    /\ hist.started \in BOOLEAN
    /\ hist.pausedSince \in BOOLEAN

\* ------------------------------------------------------------ properties
\* The operations C1 names, and the timers they start.
NextC1 ==
    \/ Start
    \/ StartOptionsCountdown
    \/ StartQuestionCountdown
    \/ Select
    \/ AdvanceTime
    \/ IntervalTick
    \/ ResultTimeoutFires

SpecC1 == Init /\ [][NextC1]_vars

\* C1: after any sequence of start, startOptionsCountdown,
\* startQuestionCountdown and select calls and timer expiries, at most one
\* timer (countdown interval or result timeout) is live.
C1_SingleActiveTimer == LiveTimers(Cur) <= 1

\* C2: pause() during the options countdown, r units before its end, then
\* resume(): the options timeout does not fire while paused; the resumed
\* countdown ends no earlier than r units after the resume() and is the
\* remaining time that was displayed at the pause, which is at most one late
\* tick more than r; and when the timeout has fired, at least r units have
\* passed since the resume().
C2_PauseResumeKeepsRemaining ==
    /\ scn.k = "pausedCd" => ~timerRef.on /\ phase = "options"
    /\ scn.k = "resumedCd" =>
          /\ timerRef.on /\ timerRef.onEnd = "optTimeout" /\ phase = "options"
          /\ timerRef.left + scn.since >= scn.r
          /\ timerRef.left > 0 =>
                timerRef.left + scn.since <= scn.r + COUNTDOWN_INTERVAL + MaxLate
    /\ scn.k = "firedCd" => scn.since >= scn.r /\ phase = "result" /\ selectedIndex = -1

\* C2's case: paused in mid-countdown, resumed, and the timeout has fired.
C2_Witness == scn.k = "firedCd" /\ scn.r > 0 /\ scn.r < optionsDuration

\* C3: once selectedIndex is non-null, only updateSelectedIndex changes it
\* until the next start() or reset(); no timeout replaces it.
C3_SelectedIndexSetOnce ==
    [][(selectedIndex # Null /\ selectedIndex' # selectedIndex)
          => (UpdateSelectedIndex \/ Start \/ Reset)]_vars

\* C4: select() outside the options phase, or with selectedIndex already
\* set, changes nothing of the controller.
C4_SelectIgnored ==
    [][(Select /\ (phase # "options" \/ selectedIndex # Null)) => UNCHANGED ctl]_vars

\* C4's case: an answer was set in the options phase and select() was called
\* again.
C4_Witness == scn.k = "selectNoop" /\ phase = "result" /\ selectedIndex \in Indices

\* A phase change of the timeout path of one cycle.
TimeoutPathStep ==
    \/ phase = "question" /\ phase' = "options"
    \/ phase = "options" /\ phase' = "result" /\ selectedIndex' = -1

NextC6 ==
    \/ Start
    \/ Reset
    \/ EnterResult
    \/ Select
    \/ StartResultTimeout
    \/ Pause
    \/ Resume
    \/ AdvanceTime
    \/ IntervalTick
    \/ ResultTimeoutFires
    \/ LeakedTimeoutFires

SpecC6 == Init /\ [][NextC6]_vars

\* C6: onComplete is invoked at most once per cycle, and only while the
\* phase is result.
C6_CompleteOncePerCycle ==
    /\ [](completeCalls <= 1)
    /\ [][completeCalls' > completeCalls => phase = "result"]_vars

\* C7: a pause() while the result timeout is live, followed by resume(),
\* restarts the timeout with the time that remained at the pause (so that it
\* fires), and starts no countdown of an earlier phase.
C7_ResultTimeoutResumed ==
    scn.k = "resumedRes" =>
        /\ ~timerRef.on
        /\ phase = "result"
        /\ \/ resultTimeoutRef.st = "live" /\ resultTimeoutRef.left + scn.since = scn.r
           \/ resultTimeoutRef.st = "stale" /\ completeCalls >= 1

\* The operations that begin and end cycles and answer: without pause,
\* resume and startQuestionCountdown the options phase is entered at most
\* once per cycle.
NextCycles ==
    \/ Start
    \/ Reset
    \/ StartOptionsCountdown
    \/ Select
    \/ EnterProcessing
    \/ EnterResult
    \/ AdvanceTime
    \/ IntervalTick
    \/ ResultTimeoutFires

SpecCycles == Init /\ [][NextCycles]_vars

\* C8: in every cycle, the response time after the first entry into
\* processing or result from the options phase is the time elapsed since the
\* options phase of that cycle started.
C8_ResponseTimePerCycle ==
    [][(phase = "options" /\ phase' \in {"processing", "result"})
          => getResponseTimeMs(Cur)' = optionsStartTimeRef]_vars

\* C9: enterProcessing() in the options phase sets the response time to the
\* time elapsed since the options phase started, and a later enterResult()
\* does not change it.
C9_ResponseTimeAtProcessing ==
    [][/\ (phase = "options" /\ EnterProcessing)
            => getResponseTimeMs(Cur)' = optionsStartTimeRef
       /\ (phase = "processing" /\ EnterResult)
            => getResponseTimeMs(Cur)' = getResponseTimeMs(Cur)]_vars

\* C10: after start({delayQuestionCountdown: true}), as long as only pause()
\* and resume() are called, the phase stays question, remainingMs stays
\* questionDuration and no countdown runs.
C10_DeferredCountdownWaits ==
    scn.k = "await" =>
        phase = "question" /\ remainingMs = questionDuration /\ ~timerRef.on

\* C11: startQuestionCountdown() with a countdown pending clears the
\* pending descriptor and starts that countdown; with nothing pending it
\* changes nothing (a running countdown is not restarted).  A countdown is
\* pending after start({delayQuestionCountdown: true}) and only start()
\* makes one pending, so a further call finds nothing pending.
C11_QuestionCountdownOnce ==
    /\ [][StartQuestionCountdown =>
             IF pendingCountdownRef.set
             THEN /\ ~pendingCountdownRef'.set
                  /\ timerRef' = [on |-> TRUE, onEnd |-> pendingCountdownRef.onEnd,
                                  duration |-> pendingCountdownRef.duration,
                                  elapsed |-> 0,
                                  left |-> pendingCountdownRef.duration, sinceTick |-> 0]
                  /\ remainingMs' = pendingCountdownRef.duration
                  /\ phase' = phase /\ selectedIndex' = selectedIndex
             ELSE UNCHANGED ctl]_vars
    /\ [][(pendingCountdownRef'.set /\ ~pendingCountdownRef.set) => Start]_vars
    /\ [](scn.k = "await" =>
             pendingCountdownRef.set /\ pendingCountdownRef.duration = questionDuration)

\* C11's case: the pending countdown was started by the first call, a
\* second call was made, and the countdown is running as the first call
\* started it.
C11_Witness ==
    /\ hist.last = "sqcNoop"
    /\ phase = "question"
    /\ timerRef.on /\ timerRef.onEnd \in {"qEnd", "qEndDelay"}
    /\ timerRef.left < questionDuration

\* C12: from every reachable state, reset() yields exactly the state of a
\* freshly constructed controller: phase idle, selectedIndex null,
\* remainingMs 0, not paused, no live timer, nothing pending, no paused
\* snapshot, no response time.
C12_ResetYieldsInitialState == [][Reset => Cur' = InitState]_vars

\* C13: immediately after pause() and immediately after reset(), neither a
\* countdown interval nor a result timeout is live.
C13_NoTimerAfterPauseOrReset == [][(Pause \/ Reset) => LiveTimers(Cur)' = 0]_vars

\* What a resume() that restores nothing leaves alone: no timer is live
\* after it, and no end callback has run (the phase, the answer, the
\* options start time and the response time are as before).
ResumeRestoresNothing ==
    /\ LiveTimers(Cur)' = 0
    /\ phase' = phase
    /\ selectedIndex' = selectedIndex
    /\ optionsStartTimeRef' = optionsStartTimeRef
    /\ responseTimeMsRef' = responseTimeMsRef

\* C14: pause() called when neither a countdown interval nor a result
\* timeout is live records no snapshot: the resume() that follows starts no
\* timer, runs no end callback and leaves phase and selectedIndex unchanged.
C14_IdlePauseRecordsNothing ==
    [][(hist.last = "pauseIdle" /\ Resume) => ResumeRestoresNothing]_vars

\* C15: resume() with no pause() since the previous resume(), reset() or
\* construction is a no-op: it starts no timer, runs no callback and changes
\* neither phase nor selectedIndex.
C15_ResumeWithoutPause ==
    [][(~hist.pausedSince /\ Resume) =>
          /\ LiveTimers(Cur)' = LiveTimers(Cur)
          /\ timerRef' = timerRef
          /\ resultTimeoutRef' = resultTimeoutRef
          /\ phase' = phase
          /\ selectedIndex' = selectedIndex]_vars

\* C16: pause() is idempotent: a pause() called directly after a pause()
\* (time may pass between them) leaves both paused snapshots and all other
\* state of the controller as the first pause() left them.
C16_PauseIdempotent ==
    [][(hist.last \in {"pause", "pauseIdle"} /\ Pause) => UNCHANGED ctl]_vars

\* C16's case: a running countdown was paused and pause() was called again.
C16_Witness ==
    /\ hist.last = "pause" /\ hist.n = 2
    /\ isPaused
    /\ pausedOnEndRef # NoCallback /\ pausedRemainingRef > 0

\* The order of the phases of a cycle.
PhaseOrder(p) ==
    CASE p = "idle" -> 0
      [] p = "question" -> 1
      [] p = "options" -> 2
      [] p = "processing" -> 3
      [] p = "result" -> 4

\* C17: within one cycle, from a start() until the next start() or
\* reset(), no operation and no timer callback moves the phase back to an
\* earlier phase of the order question, options, processing, result.
C17_PhaseMovesForward ==
    [][(hist.started /\ hist'.started /\ ~Start)
          => PhaseOrder(phase') >= PhaseOrder(phase)]_vars

\* C18: the phase becomes idle only through reset(): no other operation
\* and no timer callback sets it to idle.
C18_IdleOnlyByReset ==
    [][(phase # "idle" /\ phase' = "idle") => Reset]_vars

\* C18's case: a cycle was started and reset() has returned the phase to
\* idle.
C18_Witness == hist.last = "reset" /\ hist.n = 1 /\ phase = "idle"

\* C19: after enterResult(i, true) or an accepted select(i, true), until
\* another operation than updateSelectedIndex is called, no result timeout
\* is live and onComplete is not invoked; after startResultTimeout() in the
\* result phase the result timeout is due within resultDuration, and it has
\* invoked onComplete once that time has passed (time does not pass a due
\* timeout by more than MaxLate, see CanAdvance).
C19_SkippedResultTimeout ==
    /\ [](hist.last = "skipRes" => resultTimeoutRef.st # "live" /\ leaked = <<>>)
    /\ [][hist.last = "skipRes" => ~(ResultTimeoutFires \/ LeakedTimeoutFires)]_vars
    /\ [](hist.last = "srt" =>
             \/ resultTimeoutRef.st = "live" /\ resultTimeoutRef.left <= resultDuration
             \/ resultTimeoutRef.st = "stale" /\ completeCalls >= 1)

\* C20: startOptionsCountdown() called when the phase is not options, and
\* startResultTimeout() called when the phase is not result, change nothing
\* of the controller: no timer is started or cancelled, the options start
\* time is kept, and phase, selectedIndex and remainingMs are unchanged.
C20_OutOfPhaseIgnored ==
    [][/\ (StartOptionsCountdown /\ phase # "options") => UNCHANGED ctl
       /\ (StartResultTimeout /\ phase # "result") => UNCHANGED ctl]_vars

\* C20's case: both operations were called during the question countdown,
\* which is still running.
C20_Witness == hist.last = "bothNoop" /\ phase = "question" /\ timerRef.on

C22_UpdateSelectedIndexFrame ==
    [][UpdateSelectedIndex =>
          /\ phase # "result" => selectedIndex' = selectedIndex
          /\ UNCHANGED <<phase, remainingMs, isPaused, timerRef, resultTimeoutRef,
                         leaked, optionsStartTimeRef, responseTimeMsRef,
                         pausedRemainingRef, pausedOnEndRef, currentOnEndRef,
                         resultStartTimeRef, pausedResultRemainingRef,
                         pendingCountdownRef, completeCalls, callbackCalls>>]_vars

\* C22's case: the answer was replaced in the result phase while the result
\* timeout was running.
C22_Witness ==
    /\ hist.last = "usi" /\ hist.n = 1
    /\ phase = "result"
    /\ resultTimeoutRef.st = "live" /\ resultTimeoutRef.left < resultDuration

\* C23: when the session completes, the answer list passed to submit() has
\* exactly one record for every item of the session, in item order, the
\* last item's record included.
C23_SubmitHasAllAnswers ==
    \A k \in 1..Len(scr.submitted) :
        /\ Len(scr.submitted[k]) = Len(scr.session)
        /\ \A i \in 1..Len(scr.session) :
              scr.submitted[k][i].word_id = scr.session[i].word_id

\* C24: the record appended when an option is chosen or the countdown of
\* the exercise expires carries the word id of the current item; it is
\* correct exactly when the chosen index is the item's correct_index, and
\* not correct at a timeout, which selects -1.
C24_AnswerRecord ==
    [][(PressOption \/ CountdownExpires) /\ scr'.answers # scr.answers =>
          LET item == ItemAt(scr, scr.currentIndex)
              rec == scr'.answers[Len(scr'.answers)]
          IN  /\ scr'.answers = Append(scr.answers, rec)
              /\ rec.word_id = item.word_id
              /\ rec.correct = (scr'.selectedOptionIndex = item.correct_index)
              /\ scr'.selectedOptionIndex \in Indices \cup {-1}
              /\ CountdownExpires =>
                    scr'.selectedOptionIndex = -1 /\ ~rec.correct]_vars

\* The first item was answered with its correct option and the second
\* one has just timed out.
C24_Witness ==
    /\ scr.phase = "result" /\ scr.currentIndex = 1 /\ scr.selectedOptionIndex = -1
    /\ scr.answers = <<[word_id |-> scr.session[1].word_id, correct |-> TRUE],
                       [word_id |-> scr.session[2].word_id, correct |-> FALSE]>>

\* A call of speak() with an audio URL whose createAsync has thrown has
\* handed its own text to text-to-speech.
CreateFailureFallsBack ==
    [][CreateFails =>
          \E k \in 1..Len(sp.calls) :
              /\ sp.calls[k].pc = "create" /\ sp'.calls[k].pc = "tts"
              /\ sp'.calls[k].spoken = sp.calls[k].text
              /\ k \in sp'.utter]_vars

\* When the utterance of a call ends (onDone or onError) its promise is
\* resolved and isSpeaking is false.
TtsEndResolves ==
    [][TtsEnds =>
          /\ ~sp'.isSpeaking
          /\ \E k \in sp.utter : sp.calls[k].pc = "tts" /\ sp'.calls[k].pc = "done"]_vars

\* C25: when speak(text, audioUrl) has an audio URL and creating or playing
\* the audio fails, the call falls back to text-to-speech of the same text;
\* its promise resolves and isSpeaking is false when the speech finishes or
\* reports an error.
C25_AudioFailureFallsBack ==
    /\ [](\A k \in 1..Len(sp.calls) :
            sp.calls[k].failed => sp.calls[k].spoken = sp.calls[k].text)
    /\ CreateFailureFallsBack
    /\ TtsEndResolves

\* C26: while isPaused is true no countdown tick, no countdown end callback
\* and no onComplete callback runs, whatever operations are called during
\* the pause.
C26_NoCallbackWhilePaused ==
    [][isPaused => ~(IntervalTick \/ ResultTimeoutFires \/ LeakedTimeoutFires)]_vars

\* After enterProcessing() no timer is live.
NoTimerAfterEnterProcessing == [][EnterProcessing => LiveTimers(Cur)' = 0]_vars

\* The phase leaves processing only in a call of enterResult(), start() or
\* reset().
ProcessingLeftByCall ==
    [][phase = "processing" /\ phase' # "processing" =>
          EnterResult \/ Start \/ Reset]_vars

\* C27: after enterProcessing() no timer is live, and the phase stays
\* processing until enterResult(), start() or reset() is called: no timer
\* callback, one restored by resume() included, changes it.
C27_ProcessingIsStable ==
    /\ NoTimerAfterEnterProcessing
    /\ ProcessingLeftByCall

\* In a cycle onQuestionShown has been invoked exactly once, by start().
QuestionShownOnce ==
    /\ [](hist.started => callbackCalls.onQuestionShown = 1)
    /\ [][callbackCalls'.onQuestionShown # callbackCalls.onQuestionShown =>
             Start \/ Reset]_vars

\* In a cycle onAnswerPhaseStarted is invoked at most once, when the phase
\* moves from question to options, after onQuestionShown.
AnswerPhaseStartedOnce ==
    /\ [](callbackCalls.onAnswerPhaseStarted <= 1)
    /\ [][callbackCalls'.onAnswerPhaseStarted > callbackCalls.onAnswerPhaseStarted =>
             /\ phase = "question" /\ phase' = "options"
             /\ callbackCalls.onQuestionShown = 1]_vars

\* C29: in each cycle onQuestionShown is invoked exactly once, at start(),
\* and onAnswerPhaseStarted at most once, at the transition from question
\* to options; pause(), resume() and the later operations of the cycle
\* invoke neither again.
C29_TrackingCallbacksOnce ==
    /\ QuestionShownOnce
    /\ AnswerPhaseStartedOnce

\* The countdown tick that finds no time remaining and runs the end
\* callback.
CountdownEnds ==
    /\ IntervalTick
    /\ Max(0, timerRef.duration - timerRef.elapsed) = 0

\* In a cycle started with delayOptionsCountdown the end of the question
\* countdown leaves the options phase with no countdown running.
DelayedOptionsNoCountdown ==
    [][hist.optWait = "wait" /\ phase = "question" /\ CountdownEnds =>
          phase' = "options" /\ ~timerRef'.on]_vars

\* ... and no timeout handler runs before startOptionsCountdown() is called.
NoTimeoutBeforeOptionsCountdown ==
    [][hist.optWait = "wait" =>
          /\ callbackCalls'.onTimeout <= callbackCalls.onTimeout
          /\ callbackCalls'.defaultTimeout <= callbackCalls.defaultTimeout]_vars

\* After startOptionsCountdown(onTimeout) the expiry of the countdown runs
\* the handler, once, and the default enterResult(-1) does not run.
CustomTimeoutOnce ==
    /\ [](hist.optWait = "custom" =>
            callbackCalls.onTimeout <= 1 /\ callbackCalls.defaultTimeout = 0)
    /\ [][hist.optWait = "custom" /\ phase = "options" /\ CountdownEnds =>
             callbackCalls'.onTimeout = 1 /\ phase' = "processing"]_vars

\* C28: with start({delayOptionsCountdown: true}) the end of the question
\* countdown leaves the options phase with no countdown running, no
\* timeout occurs until startOptionsCountdown() is called, and when it is
\* called with a handler the expiry of the countdown runs that handler
\* exactly once and not enterResult(-1).
C28_DelayedOptionsCountdown ==
    /\ DelayedOptionsNoCountdown
    /\ NoTimeoutBeforeOptionsCountdown
    /\ CustomTimeoutOnce

\* The pending descriptor is set only in the question phase of a cycle
\* started with delayQuestionCountdown whose countdown has not been started.
PendingOnlyWhileAwaited ==
    [](pendingCountdownRef.set => phase = "question" /\ hist.awaited)

\* startQuestionCountdown() in another phase, or in a cycle started without
\* the delay option, starts no countdown.
NoCountdownUnlessAwaited ==
    [][StartQuestionCountdown /\ ~(phase = "question" /\ hist.awaited) =>
          UNCHANGED timerRef]_vars

\* C30: the pending deferred-countdown descriptor is present only while
\* the phase is question in a cycle started with delayQuestionCountdown
\* whose countdown has not been started; startQuestionCountdown() in any
\* other phase, or in a later cycle started without the delay option,
\* starts no countdown.
C30_PendingOnlyInDelayedQuestion ==
    /\ PendingOnlyWhileAwaited
    /\ NoCountdownUnlessAwaited

\* C31: currentIndex advances by one at a time and stays within
\* 0..total-1, and at most one answer record is appended per item, for
\* every sequence of taps and timer expiries.
C31_OneStepOneAnswerPerItem ==
    /\ [](scr.session # <<>> =>
            /\ scr.currentIndex \in 0..(Len(scr.session) - 1)
            /\ \A i, j \in 1..Len(scr.answers) :
                  scr.answers[i].word_id = scr.answers[j].word_id => i = j)
    /\ [][scr.session # <<>> /\ scr'.session # <<>> =>
             scr'.currentIndex \in {scr.currentIndex, scr.currentIndex + 1}]_vars

\* The learn and the review screen without user input: the router opens
\* the screen, the session is loaded, and from then on only countdowns
\* expire and scheduled callbacks and service calls return.
MountAuto ==
    \E screen \in {"learn", "review"} :
        scr.screen = "none" /\ ScreenStep([scr EXCEPT !.screen = screen])

NextAuto ==
    \/ MountAuto
    \/ LoadSession
    \/ CountdownExpires
    \/ PendingFires

\* Timers fire and service calls return.
SpecAuto ==
    /\ Init /\ [][NextAuto]_vars
    /\ WF_vars(LoadSession) /\ WF_vars(CountdownExpires) /\ WF_vars(PendingFires)

\* A step to another phase or item is the next one of the order display,
\* exercise (left by timeout), result, then the next item or complete.
ScreenPhaseOrder ==
    [][scr.session # <<>> /\ <<scr.phase, scr.currentIndex>> # <<scr'.phase, scr'.currentIndex>> =>
         LET last == Len(scr.session) - 1
         IN  \/ /\ scr.phase = "display" /\ scr'.phase = "exercise"
                /\ scr'.currentIndex = scr.currentIndex
             \/ /\ scr.phase = "exercise" /\ scr'.phase = "result"
                /\ scr'.currentIndex = scr.currentIndex
                /\ scr'.selectedOptionIndex = -1
             \/ /\ scr.phase = "result" /\ scr'.phase = "display"
                /\ scr.currentIndex < last
                /\ scr'.currentIndex = scr.currentIndex + 1
             \/ /\ scr.phase = "result" /\ scr'.phase = "complete"
                /\ scr.currentIndex = last
                /\ scr'.currentIndex = last]_vars

\* C33: without user input every item of a loaded session passes display,
\* exercise and result in that order, each exercise ending by timeout, the
\* items are visited in the order 0..n-1, the first phase is the display of
\* item 0, and the screen eventually reaches the complete phase.
C33_AutoRunCompletes ==
    /\ ScreenPhaseOrder
    /\ [][scr.session = <<>> /\ scr'.session # <<>> =>
             scr'.phase = "display" /\ scr'.currentIndex = 0]_vars
    /\ (scr.session # <<>>) ~> (scr.phase = "complete")

\* The last of MaxItems items has timed out and the screen is complete.
C33_Witness ==
    /\ scr.screen \in {"learn", "review"}
    /\ Len(scr.session) = MaxItems
    /\ scr.phase = "complete"
    /\ scr.currentIndex = MaxItems - 1
    /\ scr.selectedOptionIndex = -1

\* C32: when the leave-confirmation dialog was opened while the countdown
\* of the display or exercise phase was running and is then cancelled,
\* the countdown of the current phase is running.
C32_CountdownSurvivesDialog ==
    [][CancelDialog /\ scr.dialog.countdown /\ HasItem(scr)
         /\ \/ scr.phase = "display"
            \/ scr.phase = "exercise" /\ ItemAt(scr, scr.currentIndex).category # "speaking"
       => scr'.timer.on]_vars

\* The sounds created by speak() that are playing
Playing == {k \in 1..Len(sp.sounds) : sp.sounds[k] = "playing"}

\* C34: at most one audio playback started by speak() is active, and
\* soundRef refers to it.
C34_OnePlayback ==
    /\ Cardinality(Playing) <= 1
    /\ \A k \in Playing : sp.soundRef = k

\* The native side answers: stopAsync, unloadAsync and createAsync return
\* or throw, a playback that is not stopped finishes unless it fails, and
\* an utterance that is not stopped ends.
SpecSpeechFair ==
    /\ Init /\ [][NextSpeech]_vars
    /\ WF_vars(StopReturns) /\ WF_vars(UnloadReturns)
    /\ WF_vars(CreateReturns \/ CreateFails)
    /\ WF_vars(PlaybackFinishes \/ PlaybackFails)
    /\ WF_vars(TtsEnds)

\* C35: every promise returned by speak() eventually settles, also when
\* its playback is stopped by cancel() or by a later speak() before it
\* finishes.  (A playback that fails by itself is the case of C25 and is
\* left aside here.)
C35_SpeakSettles ==
    \A k \in 1..MaxSpeak :
        (IF k <= Len(sp.calls) THEN sp.calls[k].kind = "speak" ELSE FALSE)
            ~> (IF k <= Len(sp.calls)
                THEN sp.calls[k].pc = "done" \/ sp.sounds[k] = "failed"
                ELSE FALSE)

\* The unsubscribe function of the most recent subscribe() was not called.
LastSubscriptionLive ==
    rs.subs # <<>> /\ rs.subs[Len(rs.subs)].calls = 0

\* C38: trigger() invokes the callback of the most recent subscribe() and
\* nothing else, provided the unsubscribe function returned by that call
\* has not been called; otherwise it invokes nothing.
C38_TriggerInvokesLastSubscriber ==
    rs.last.op = "trigger" =>
        rs.invoked = IF LastSubscriptionLive
                     THEN <<rs.subs[Len(rs.subs)].callback>>
                     ELSE <<>>

\* C39: an unsubscribe function whose callback has been replaced by a
\* later subscribe() of a different callback leaves the subscriber as it
\* is, and the second and later calls of an unsubscribe function change
\* nothing.
C39_StaleUnsubscribeIsNoop ==
    [][rs'.last.op = "unsubscribe" =>
         LET h == rs'.last.h
         IN  /\ (rs.subscriber \notin {"null", rs.subs[h].callback}) =>
                    rs'.subscriber = rs.subscriber
             /\ rs.subs[h].calls >= 1 => rs'.subscriber = rs.subscriber]_vars

\* Once markAsSeen() was called in a mount, shouldShow is false.
HiddenOnceMarked == cm.mounted /\ cm.marked => ~cm.shouldShow

\* In a mount that began after the write had succeeded, shouldShow is false.
HiddenInLaterMount == cm.mounted /\ cm.seenAtMount => ~cm.shouldShow

\* When the storage read fails, shouldShow is false.
HiddenWhenReadFails == cm.mounted /\ cm.readFailed => ~cm.shouldShow

\* C36: once markAsSeen() has been called for a key, shouldShow is false
\* and stays false for that key: in the same mount, also when the initial
\* read completes after markAsSeen(), and in later mounts when the write
\* succeeded; when the read fails, shouldShow is false.
C36_ShownOnlyFirstTime ==
    /\ HiddenOnceMarked
    /\ HiddenInLaterMount
    /\ HiddenWhenReadFails

\* While isActive stays true, onStart is invoked once and one countdown is
\* started.
StartedOnce ==
    dp.mounted /\ dp.props.isActive =>
        /\ dp.countdowns = 1
        /\ dp.props.onStart # "none" => dp.startCalls = 1

\* While isActive stays true, onComplete is invoked at most once, and only
\* by a countdown that has reached 0.
CompletedOnce ==
    /\ dp.mounted /\ dp.props.isActive => dp.completeCalls <= 1
    /\ dp.last = "complete" => dp.remainingMs = 0 /\ ~dp.timer.on

\* onComplete is invoked only while the hook is mounted and active, and not
\* before the duration has elapsed.
CompleteOnlyWhenDue ==
    [][dp'.last = "complete" /\ dp' # dp =>
         /\ dp.mounted /\ dp.props.isActive /\ dp.timer.on
         /\ dp.timer.elapsed + 1 >= dp.props.duration]_vars

\* C37: while isActive stays true, onStart is invoked exactly once, the
\* countdown runs once and onComplete is invoked once, at its end;
\* onComplete is never invoked before the duration has elapsed, nor after
\* isActive became false or the hook was unmounted.
C37_DisplayPhaseRunsOnce ==
    /\ []StartedOnce
    /\ []CompletedOnce
    /\ CompleteOnlyWhenDue
=============================================================================
